---- MODULE Spec2Model ----
(***************************************************************************)
(* A model of SreRuleEngine (src/SreRuleEngine.cpp, src/SreRuleEngine.h):  *)
(* the lexer, the recursive-descent parser, the two-capability AST         *)
(* evaluator, the predicate registry and the engine's two operations,      *)
(* registerFunction and evaluate.                                          *)
(*                                                                         *)
(* A character is a one-character string; a std::string is a sequence of   *)
(* characters.  Positions are 0-based as in the code: the character at     *)
(* pos_ is input[pos_ + 1].                                                *)
(***************************************************************************)
EXTENDS Integers, Sequences, FiniteSets, TLC

VARIABLES
    functions_,   \* SreRuleEngine::functions_: lowercased name -> callable
    ctx,          \* the caller's SreContext, passed to evaluate by const reference
    expression,   \* the expression the caller evaluates
    result,       \* the outcome of the last evaluate call
    op,           \* the last operation applied to the engine and its arguments
    src           \* how the caller built expression: a form and its parts

vars == <<functions_, ctx, expression, result, op, src>>

(***************************************************************************)
(* <cctype> in the "C" locale.                                             *)
(***************************************************************************)
LowerLetters ==
    <<"a","b","c","d","e","f","g","h","i","j","k","l","m",
      "n","o","p","q","r","s","t","u","v","w","x","y","z">>

UpperLetters ==
    <<"A","B","C","D","E","F","G","H","I","J","K","L","M",
      "N","O","P","Q","R","S","T","U","V","W","X","Y","Z">>

Digits == {"0","1","2","3","4","5","6","7","8","9"}

isupper(c) == \E i \in DOMAIN UpperLetters : UpperLetters[i] = c

islower(c) == \E i \in DOMAIN LowerLetters : LowerLetters[i] = c

isalpha(c) == isupper(c) \/ islower(c)

isalnum(c) == isalpha(c) \/ c \in Digits

isspace(c) == c \in {" ", "\t", "\n", "\r", "\f"}

tolower(c) ==
    IF isupper(c)
    THEN LowerLetters[CHOOSE i \in DOMAIN UpperLetters : UpperLetters[i] = c]
    ELSE c

\* std::transform(lower.begin(), lower.end(), lower.begin(), ::tolower)
ToLower(s) == [i \in 1..Len(s) |-> tolower(s[i])]

\* haystack.find(needle) != std::string::npos
Find(haystack, needle) ==
    \E i \in 0..(Len(haystack) - Len(needle)) :
        SubSeq(haystack, i + 1, i + Len(needle)) = needle

\* std::remove of the characters in cs, then erase
Strip(s, cs) == SelectSeq(s, LAMBDA c : c \notin cs)

(***************************************************************************)
(* SreLexer.                                                               *)
(***************************************************************************)
RECURSIVE skipWhitespace(_, _)
skipWhitespace(input_, pos_) ==
    IF pos_ < Len(input_) /\ isspace(input_[pos_ + 1])
    THEN skipWhitespace(input_, pos_ + 1)
    ELSE pos_

isIdentChar(c) == isalnum(c) \/ c = "#" \/ c = "{" \/ c = "}"

\* the loop of lines 44-46: the position after the identifier run
RECURSIVE identEnd(_, _)
identEnd(input_, pos_) ==
    IF pos_ < Len(input_) /\ isIdentChar(input_[pos_ + 1])
    THEN identEnd(input_, pos_ + 1)
    ELSE pos_

\* the loop of lines 56-58: the position of the closing quote, or the end
RECURSIVE stringEnd(_, _)
stringEnd(input_, pos_) ==
    IF pos_ < Len(input_) /\ input_[pos_ + 1] # "'"
    THEN stringEnd(input_, pos_ + 1)
    ELSE pos_

NoError == "none"

\* Body applied to value, with value evaluated once
With(value, Body(_)) == CHOOSE y \in {Body(x) : x \in {value}} : TRUE

\* a token as nextToken returns it, with the lexer's pos_ after the call;
\* err is the message of the exception thrown instead, etext what is appended
Tok(type, text, pos_) ==
    [type |-> type, text |-> text, pos_ |-> pos_, err |-> NoError, etext |-> <<>>]

LexThrow(c, pos_) ==
    [type |-> "End", text |-> <<>>, pos_ |-> pos_,
     err |-> "Unexpected character: ", etext |-> <<c>>]

keywordOrIdentifier(s, pos_) ==
    LET lower == ToLower(s) IN
    IF lower = <<"a","n","d">> THEN Tok("And", s, pos_)
    ELSE IF lower = <<"o","r">> THEN Tok("Or", s, pos_)
    ELSE IF lower = <<"n","o","t">> THEN Tok("Not", s, pos_)
    ELSE Tok("Identifier", s, pos_)

\* a lexer that forgets pos_++ after "("
lexLParenStuck(p) == Tok("LParen", <<"(">>, p)

\* lines 64-66
lexLParen(p) == Tok("LParen", <<"(">>, p + 1)

nextToken(input_, pos0) ==
    LET p == skipWhitespace(input_, pos0) IN
    IF p >= Len(input_) THEN Tok("End", <<>>, p)
    ELSE
      LET c == input_[p + 1] IN
      IF isalpha(c) \/ c = "#" \/ c = "{" \/ c = "}" THEN
          LET e == identEnd(input_, p) IN
          keywordOrIdentifier(SubSeq(input_, p + 1, e), e)
      ELSE IF c = "'" THEN
          \* pos_++ past the opening quote, the loop, pos_++ again (line 59)
          \* whether or not a closing quote was found
          LET e == stringEnd(input_, p + 1) IN
          Tok("StringLiteral", SubSeq(input_, p + 2, e), e + 1)
      ELSE IF c = "," THEN Tok("Comma", <<",">>, p + 1)
      ELSE IF c = "(" THEN lexLParen(p)
      ELSE IF c = ")" THEN Tok("RParen", <<")">>, p + 1)
      ELSE LexThrow(c, p)

(***************************************************************************)
(* AST nodes.                                                              *)
(***************************************************************************)
NoNode == [k |-> "null"]

LogicalNode(operator, left, right) ==
    [k |-> "Logical", op_ |-> operator, left_ |-> left, right_ |-> right]

ValueNode(val, isVariable) ==
    [k |-> "Value", val_ |-> val, isVariable_ |-> isVariable]

FunctionNode(name, args) ==
    [k |-> "Function", name_ |-> name, args_ |-> args]

(***************************************************************************)
(* SreParser.  The parser's state is the current token, the lexer's        *)
(* position and the number n of nextToken calls made so far; an exception  *)
(* in flight is the state's err (its message) and etext (what the message  *)
(* appends).                                                               *)
(***************************************************************************)
NoProgress == "(lexer made no progress)"

Throw(P, msg, text) == [P EXCEPT !.err = msg, !.etext = text]

\* currentToken_ = lexer_.nextToken().  Every token but End is at least one
\* character long, so a parse of input_ calls nextToken at most Len + 1
\* times; a call beyond that is reported as NoProgress, which bounds the
\* evaluation of a lexer that would not advance.
advance(input_, P) ==
    IF P.n > Len(input_) THEN Throw(P, NoProgress, <<>>)
    ELSE With(nextToken(input_, P.pos_), LAMBDA t :
        IF t.err # NoError THEN [Throw(P, t.err, t.etext) EXCEPT !.n = P.n + 1]
        ELSE [currentToken_ |-> [type |-> t.type, text |-> t.text],
              pos_ |-> t.pos_, n |-> P.n + 1, err |-> NoError, etext |-> <<>>])

\* SreParser::SreParser(SreLexer&), on a lexer at position 0
SreParser(input_) ==
    advance(input_, [currentToken_ |-> [type |-> "End", text |-> <<>>],
                     pos_ |-> 0, n |-> 0, err |-> NoError, etext |-> <<>>])

consume(input_, P, type) ==
    IF P.currentToken_.type # type
    THEN Throw(P, "Expected token type mismatch", <<>>)
    ELSE advance(input_, P)

\* what a parse function returns: the node, and the parser's state after it
Parsed(node, P) == [node |-> node, P |-> P]

Raised(P) == [node |-> NoNode, P |-> P]

Failed(r) == r.P.err # NoError

RECURSIVE parseExpression(_, _)
RECURSIVE parseOr(_, _)
RECURSIVE parseOrLoop(_, _)
RECURSIVE parseAnd(_, _)
RECURSIVE parseAndLoop(_, _)
RECURSIVE parseNot(_, _)
RECURSIVE parsePrimary(_, _)
RECURSIVE parseArgs(_, _, _)

parseExpression(input_, P) == parseOr(input_, P)

\* the while loop of parseOr; r holds node and the parser's state
parseOrLoop(input_, r) ==
    IF r.P.currentToken_.type # "Or" THEN r
    ELSE With(consume(input_, r.P, "Or"), LAMBDA c :
        IF c.err # NoError THEN Raised(c)
        ELSE With(parseAnd(input_, c), LAMBDA right :
            IF Failed(right) THEN right
            ELSE With(Parsed(LogicalNode("Or", r.node, right.node), right.P),
                      LAMBDA node : parseOrLoop(input_, node))))

parseOr(input_, P) ==
    With(parseAnd(input_, P), LAMBDA node :
        IF Failed(node) THEN node ELSE parseOrLoop(input_, node))

\* the while loop of parseAnd
parseAndLoop(input_, r) ==
    IF r.P.currentToken_.type # "And" THEN r
    ELSE With(consume(input_, r.P, "And"), LAMBDA c :
        IF c.err # NoError THEN Raised(c)
        ELSE With(parseNot(input_, c), LAMBDA right :
            IF Failed(right) THEN right
            ELSE With(Parsed(LogicalNode("And", r.node, right.node), right.P),
                      LAMBDA node : parseAndLoop(input_, node))))

parseAnd(input_, P) ==
    With(parseNot(input_, P), LAMBDA node :
        IF Failed(node) THEN node ELSE parseAndLoop(input_, node))

\* a parser whose "not" takes a whole conjunction as its operand
parseNotLoose(input_, P) ==
    IF P.currentToken_.type = "Not" THEN
        With(consume(input_, P, "Not"), LAMBDA c :
            IF c.err # NoError THEN Raised(c)
            ELSE With(parseAnd(input_, c), LAMBDA operand :
                IF Failed(operand) THEN operand
                ELSE Parsed(LogicalNode("Not", operand.node, NoNode), operand.P)))
    ELSE parsePrimary(input_, P)

parseNot(input_, P) ==
    IF P.currentToken_.type = "Not" THEN
        With(consume(input_, P, "Not"), LAMBDA c :
            IF c.err # NoError THEN Raised(c)
            ELSE With(parsePrimary(input_, c), LAMBDA operand :
                IF Failed(operand) THEN operand
                ELSE Parsed(LogicalNode("Not", operand.node, NoNode), operand.P)))
    ELSE parsePrimary(input_, P)

\* the while loop of lines 235-238, after an argument has been parsed:
\* args are the nodes so far, P the state after the last of them
parseArgs(input_, args, P) ==
    IF P.currentToken_.type # "Comma" THEN [args |-> args, P |-> P]
    ELSE With(consume(input_, P, "Comma"), LAMBDA c :
        IF c.err # NoError THEN [args |-> args, P |-> c]
        ELSE With(parseExpression(input_, c), LAMBDA a :
            IF Failed(a) THEN [args |-> args, P |-> a.P]
            ELSE With(Append(args, a.node),
                      LAMBDA more : parseArgs(input_, more, a.P))))

\* lines 243-250: the Value node of an identifier not followed by "("
identifierValue(name) ==
    LET isVar == \E i \in 1..Len(name) : name[i] = "#"
        varName == Strip(name, {"#", "{", "}"})
    IN ValueNode(varName, isVar)

\* lines 231-241: a call's arguments and closing parenthesis; P is the
\* state after the "("
parseCall(input_, name, P) ==
    With(IF P.currentToken_.type # "RParen"
         THEN With(parseExpression(input_, P), LAMBDA first :
                  IF Failed(first) THEN [args |-> <<>>, P |-> first.P]
                  ELSE parseArgs(input_, <<first.node>>, first.P))
         ELSE [args |-> <<>>, P |-> P],
         LAMBDA rest :
            IF rest.P.err # NoError THEN Raised(rest.P)
            ELSE With(consume(input_, rest.P, "RParen"), LAMBDA e :
                IF e.err # NoError THEN Raised(e)
                ELSE Parsed(FunctionNode(name, rest.args), e)))

parsePrimary(input_, P) ==
    IF P.currentToken_.type = "LParen" THEN
        With(consume(input_, P, "LParen"), LAMBDA c :
            IF c.err # NoError THEN Raised(c)
            ELSE With(parseExpression(input_, c), LAMBDA node :
                IF Failed(node) THEN node
                ELSE With(consume(input_, node.P, "RParen"), LAMBDA d :
                    IF d.err # NoError THEN Raised(d)
                    ELSE Parsed(node.node, d))))
    ELSE IF P.currentToken_.type = "Identifier" THEN
        With(consume(input_, P, "Identifier"), LAMBDA c :
            IF c.err # NoError THEN Raised(c)
            ELSE IF c.currentToken_.type = "LParen" THEN
                With(consume(input_, c, "LParen"), LAMBDA d :
                    IF d.err # NoError THEN Raised(d)
                    ELSE parseCall(input_, P.currentToken_.text, d))
            ELSE Parsed(identifierValue(P.currentToken_.text), c))
    ELSE IF P.currentToken_.type = "StringLiteral" THEN
        With(consume(input_, P, "StringLiteral"), LAMBDA c :
            IF c.err # NoError THEN Raised(c)
            ELSE Parsed(ValueNode(P.currentToken_.text, FALSE), c))
    ELSE Raised(Throw(P, "Unexpected token: ", P.currentToken_.text))

(***************************************************************************)
(* Evaluation.  An evaluation yields err (the message of the exception     *)
(* thrown, or NoError), the boolean b or the string s it returns, and the  *)
(* log of what it did, in order: a Value node returning a string, a        *)
(* registry lookup, a callable being invoked.                              *)
(***************************************************************************)
Event(e, name, f, args) == [e |-> e, name |-> name, f |-> f, args |-> args]

EvalThrow(msg, text, log) ==
    [err |-> msg, etext |-> text, b |-> FALSE, s |-> <<>>, log |-> log]

ReturnBool(b, log) ==
    [err |-> NoError, etext |-> <<>>, b |-> b, s |-> <<>>, log |-> log]

ReturnString(s, log) ==
    [err |-> NoError, etext |-> <<>>, b |-> FALSE, s |-> s, log |-> log]

\* the callables: the two built-in lambdas of initBuiltInFunctions, and
\* callables a caller may register
BuiltInContains == "contains"

BuiltInContainsAny == "containsAny"

UserCallables == {"userTrue", "userFalse"}

\* it->second(evaluatedArgs)
Invoke(f, args, log) ==
    IF f = BuiltInContains THEN
        IF Len(args) # 2
        THEN EvalThrow("contains requires 2 arguments", <<>>, log)
        ELSE ReturnBool(Find(args[1], args[2]), log)
    ELSE IF f = BuiltInContainsAny THEN
        IF Len(args) < 2
        THEN EvalThrow("containsAny requires at least 2 arguments", <<>>, log)
        ELSE ReturnBool(\E i \in 2..Len(args) : Find(args[1], args[i]), log)
    ELSE ReturnBool(f = "userTrue", log)

\* SreValueNode::evalString
valueEvalString(node, c) ==
    IF node.isVariable_ THEN
        IF node.val_ \notin DOMAIN c
        THEN EvalThrow("Variable not found: ", node.val_, <<>>)
        ELSE ReturnString(c[node.val_],
                          <<Event("string", node.val_, "", <<c[node.val_]>>)>>)
    ELSE ReturnString(node.val_, <<Event("string", node.val_, "", <<node.val_>>)>>)

\* a lookup under the name as written
lookupKeyAsWritten(name) == name

\* lines 168-170: the registry key a call's name is looked up under
lookupKey(name) == ToLower(name)

RECURSIVE evalBool(_, _, _)
RECURSIVE evalString(_, _, _)
RECURSIVE evalArgs(_, _, _, _, _)

\* an evaluator that coerces a boolean node to the string of its value
evalStringCoercing(node, c, functions) ==
    IF node.k = "Value" THEN valueEvalString(node, c)
    ELSE With(evalBool(node, c, functions), LAMBDA v :
        IF v.err # NoError THEN v
        ELSE ReturnString(IF v.b THEN <<"1">> ELSE <<"0">>, v.log))

evalString(node, c, functions) ==
    IF node.k = "Value" THEN valueEvalString(node, c)
    ELSE EvalThrow("Not a string expression node", <<>>, <<>>)

\* the loop of lines 164-167 from argument i on: evaluatedArgs so far is
\* done.args, done.log what the arguments before i did
evalArgs(args, i, c, functions, done) ==
    IF i > Len(args) THEN [err |-> NoError, etext |-> <<>>, args |-> done.args,
                           log |-> done.log]
    ELSE With(evalString(args[i], c, functions), LAMBDA a :
        IF a.err # NoError
        THEN [err |-> a.err, etext |-> a.etext, args |-> done.args,
              log |-> done.log \o a.log]
        ELSE With([args |-> Append(done.args, a.s), log |-> done.log \o a.log],
                  LAMBDA more : evalArgs(args, i + 1, c, functions, more)))

\* an evaluator that evaluates both children before it combines them
logicalEvalBoth(node, c, functions) ==
    With(evalBool(node.left_, c, functions), LAMBDA l :
        IF l.err # NoError THEN l
        ELSE IF node.op_ = "Not" THEN ReturnBool(~l.b, l.log)
        ELSE With(evalBool(node.right_, c, functions), LAMBDA r :
            IF r.err # NoError THEN [r EXCEPT !.log = l.log \o r.log]
            ELSE IF node.op_ = "And" THEN ReturnBool(l.b /\ r.b, l.log \o r.log)
            ELSE ReturnBool(l.b \/ r.b, l.log \o r.log)))

\* SreLogicalNode::evalBool: && and || evaluate the right operand only when
\* the left one does not decide the result
logicalEvalBool(node, c, functions) ==
    With(evalBool(node.left_, c, functions), LAMBDA l :
        IF l.err # NoError THEN l
        ELSE IF node.op_ = "And" THEN
            IF ~l.b THEN ReturnBool(FALSE, l.log)
            ELSE With(evalBool(node.right_, c, functions), LAMBDA r :
                     [r EXCEPT !.log = l.log \o r.log])
        ELSE IF node.op_ = "Or" THEN
            IF l.b THEN ReturnBool(TRUE, l.log)
            ELSE With(evalBool(node.right_, c, functions), LAMBDA r :
                     [r EXCEPT !.log = l.log \o r.log])
        ELSE IF node.op_ = "Not" THEN ReturnBool(~l.b, l.log)
        ELSE EvalThrow("Invalid logical operator", <<>>, l.log))

\* a call that looks its name up before it evaluates its arguments
functionEvalLookupFirst(node, c, functions) ==
    LET lower == lookupKey(node.name_)
        looked == <<Event("lookup", lower, "", <<>>)>>
    IN
    IF lower \notin DOMAIN functions
    THEN EvalThrow("Function not found: ", node.name_, looked)
    ELSE With(evalArgs(node.args_, 1, c, functions,
                       [args |-> <<>>, log |-> looked]),
              LAMBDA evaluatedArgs :
        IF evaluatedArgs.err # NoError
        THEN EvalThrow(evaluatedArgs.err, evaluatedArgs.etext, evaluatedArgs.log)
        ELSE Invoke(functions[lower], evaluatedArgs.args,
                    Append(evaluatedArgs.log,
                           Event("invoke", lower, functions[lower],
                                 evaluatedArgs.args))))

\* SreFunctionNode::evalBool
functionEvalBool(node, c, functions) ==
    With(evalArgs(node.args_, 1, c, functions, [args |-> <<>>, log |-> <<>>]),
         LAMBDA evaluatedArgs :
        IF evaluatedArgs.err # NoError
        THEN EvalThrow(evaluatedArgs.err, evaluatedArgs.etext, evaluatedArgs.log)
        ELSE
          LET lower == lookupKey(node.name_)
              log == Append(evaluatedArgs.log, Event("lookup", lower, "", <<>>))
          IN
          IF lower \notin DOMAIN functions
          THEN EvalThrow("Function not found: ", node.name_, log)
          ELSE Invoke(functions[lower], evaluatedArgs.args,
                      Append(log, Event("invoke", lower, functions[lower],
                                        evaluatedArgs.args))))

evalBool(node, c, functions) ==
    IF node.k = "Logical" THEN logicalEvalBool(node, c, functions)
    ELSE IF node.k = "Value" THEN
        \* SreValueNode::evalBool
        With(valueEvalString(node, c), LAMBDA s :
            IF s.err # NoError THEN s ELSE ReturnBool(s.s # <<>>, s.log))
    ELSE IF node.k = "Function" THEN functionEvalBool(node, c, functions)
    ELSE EvalThrow("Not a boolean expression node", <<>>, <<>>)

(***************************************************************************)
(* SreRuleEngine.                                                          *)
(***************************************************************************)
\* what evaluate hands back to its caller: a boolean (kind "bool") or one
\* exception (kind "error"); with it the log of the evaluation, the lexer's
\* final pos_, the number n of nextToken calls and the token the parser
\* stopped at
Outcome(kind, b, err, etext, log, P) ==
    [kind |-> kind, b |-> b, err |-> err, etext |-> etext, log |-> log,
     pos_ |-> P.pos_, n |-> P.n, last |-> P.currentToken_.type]

\* an engine that requires the End token after the top-level expression
evaluateRootAtEnd(root, c, functions) ==
    IF root.P.currentToken_.type # "End"
    THEN Outcome("error", FALSE, "Unexpected token: ",
                 root.P.currentToken_.text, <<>>, root.P)
    ELSE With(evalBool(root.node, c, functions), LAMBDA v :
        IF v.err # NoError
        THEN Outcome("error", FALSE, v.err, v.etext, v.log, root.P)
        ELSE Outcome("bool", v.b, NoError, <<>>, v.log, root.P))

\* after parser.parseExpression(): the root is evaluated whatever the
\* current token is
evaluateRoot(root, c, functions) ==
    With(evalBool(root.node, c, functions), LAMBDA v :
        IF v.err # NoError
        THEN Outcome("error", FALSE, v.err, v.etext, v.log, root.P)
        ELSE Outcome("bool", v.b, NoError, <<>>, v.log, root.P))

evaluate(expr, c, functions) ==
    With(SreParser(expr), LAMBDA parser :
        IF parser.err # NoError
        THEN Outcome("error", FALSE, parser.err, parser.etext, <<>>, parser)
        ELSE With(parseExpression(expr, parser), LAMBDA root :
            IF Failed(root)
            THEN Outcome("error", FALSE, root.P.err, root.P.etext, <<>>, root.P)
            ELSE evaluateRoot(root, c, functions)))

\* a registry keyed by the name as written
registryKeyAsWritten(name) == name

\* lines 280-281: the key a name is registered under
registryKey(name) == ToLower(name)

registerInto(functions, name, func) ==
    LET lower == registryKey(name) IN
    [k \in DOMAIN functions \cup {lower} |->
        IF k = lower THEN func ELSE functions[k]]

\* the registry after initBuiltInFunctions, on an empty map
initBuiltInFunctions ==
    registerInto(
        registerInto(<<>>, <<"c","o","n","t","a","i","n","s">>, BuiltInContains),
        <<"c","o","n","t","a","i","n","s","a","n","y">>, BuiltInContainsAny)

(***************************************************************************)
(* Building expression texts.  The caller builds its expression from parts *)
(* (texts) put together in one of a few forms.                             *)
(***************************************************************************)
RECURSIVE Flatten(_)
Flatten(pieces) ==
    IF pieces = <<>> THEN <<>> ELSE Head(pieces) \o Flatten(Tail(pieces))

RECURSIVE JoinWith(_, _)
JoinWith(pieces, sep) ==
    IF pieces = <<>> THEN <<>>
    ELSE IF Len(pieces) = 1 THEN pieces[1]
    ELSE pieces[1] \o sep \o JoinWith(Tail(pieces), sep)

\* all sequences over S of length at most n
SeqsUpTo(S, n) == UNION {[1..k -> S] : k \in 0..n}

Quoted(s) == <<"'">> \o s \o <<"'">>

Paren(e) == <<"(">> \o e \o <<")">>

Variable(name) == <<"#", "{">> \o name \o <<"}">>

CallText(name, args) == name \o <<"(">> \o JoinWith(args, <<",", " ">>) \o <<")">>

Bin(l, keyword, r) == l \o <<" ">> \o keyword \o <<" ">> \o r

kwAnd == <<"a","n","d">>

kwOr == <<"o","r">>

kwNot == <<"n","o","t">>

Neg(e) == kwNot \o <<" ">> \o e

sContains == <<"c","o","n","t","a","i","n","s">>

sFoo == <<"f","o","o">>

sFrob == <<"f","r","o","b">>

Source(form, parts) == [form |-> form, parts |-> parts]

Text(s) ==
    LET A == s.parts[1]
        B == s.parts[2]
        C == s.parts[3]
    IN
    CASE s.form = "text" -> Flatten(s.parts)
      [] s.form = "tokens" -> JoinWith(s.parts, <<" ">>)
      [] s.form = "call" -> CallText(s.parts[1], Tail(s.parts))
      [] s.form = "and" -> Bin(A, kwAnd, B)
      [] s.form = "or" -> Bin(A, kwOr, B)
      [] s.form = "or_and" -> Bin(A, kwOr, Bin(B, kwAnd, C))
      [] s.form = "not_and" -> Bin(Neg(A), kwAnd, B)
      [] s.form = "and_and" -> Bin(A, kwAnd, Bin(B, kwAnd, C))
      [] s.form = "or_or" -> Bin(A, kwOr, Bin(B, kwOr, C))
      [] s.form = "(or)_and" -> Bin(Paren(Bin(A, kwOr, B)), kwAnd, C)
      [] s.form = "and_(or)" -> Bin(A, kwAnd, Paren(Bin(B, kwOr, C)))
      [] s.form = "not_(and)" -> Neg(Paren(Bin(A, kwAnd, B)))
      [] s.form = "trail" -> A \o <<" ">> \o B \o C

(***************************************************************************)
(* The state machine: an engine is constructed, and then registerFunction  *)
(* and evaluate are called in any order.                                   *)
(***************************************************************************)
NoResult ==
    [kind |-> "none", b |-> FALSE, err |-> NoError, etext |-> <<>>,
     log |-> <<>>, pos_ |-> 0, n |-> 0, last |-> "End"]

\* contexts a caller may hold; the variable m is in none of them
Contexts ==
    { (<<"a">> :> <<"a","b">>),
      (<<"a">> :> <<>>) @@ (<<"b">> :> <<"b">>) }

\* SreRuleEngine::SreRuleEngine(), with a caller that holds a context and
\* an expression built as one of Sources
InitOn(Sources) ==
    /\ functions_ = initBuiltInFunctions
    /\ ctx \in Contexts
    /\ src \in Sources
    /\ expression = Text(src)
    /\ result = NoResult
    /\ op = [kind |-> "construct", name |-> <<>>, f |-> "", ctx |-> ctx]

\* SreRuleEngine::registerFunction(name, func)
registerFunction(name, func) ==
    /\ functions_' = registerInto(functions_, name, func)
    /\ op' = [kind |-> "registerFunction", name |-> name, f |-> func, ctx |-> ctx]
    /\ UNCHANGED <<ctx, expression, result, src>>

\* SreRuleEngine::evaluate(expression, ctx): functions_ is read, ctx is a
\* const reference read through find
Evaluate ==
    /\ result' = evaluate(expression, ctx, functions_)
    /\ op' = [kind |-> "evaluate", name |-> <<>>, f |-> "", ctx |-> ctx]
    /\ UNCHANGED <<functions_, ctx, expression, src>>

\* the last operation was evaluate: result is expression's outcome under
\* the present registry and context
Evaluated == op.kind = "evaluate"

\* an outcome as the caller sees it: the boolean, or the exception
Verdict(r) == <<r.kind, r.b, r.err, r.etext>>

\* the messages of the exceptions the code throws
Messages ==
    { "Unexpected character: ", "Unexpected token: ",
      "Expected token type mismatch", "Not a boolean expression node",
      "Not a string expression node", "Invalid logical operator",
      "Variable not found: ", "Function not found: ",
      "contains requires 2 arguments",
      "containsAny requires at least 2 arguments" }

(***************************************************************************)
(* Arbitrary input: every string of at most MaxLen pieces of CharPieces.   *)
(***************************************************************************)
MaxLen == 4

CharPieces ==
    { <<"f">>, <<"'">>, <<"(">>, <<")">>, <<",">>, <<" ">>, <<"$">>, <<"#">> }

CharSources == {Source("text", ps) : ps \in SeqsUpTo(CharPieces, MaxLen)}

RegisterChars == registerFunction(<<"F">>, "userTrue")

InitChars == InitOn(CharSources)

NextChars == RegisterChars \/ Evaluate

SpecChars == InitChars /\ [][NextChars]_vars

\* C3: every evaluate call ends with exactly one outcome, a boolean or one
\* of the code's exceptions, after at most Len + 1 calls of the lexer, and
\* the caller's context is what it was before the call.
C3_Totality ==
    Evaluated =>
        /\ result.kind \in {"bool", "error"}
        /\ result.kind = "bool" => result.err = NoError
        /\ result.kind = "error" => result.err \in Messages
        /\ result.n <= Len(expression) + 1
        /\ result.pos_ <= Len(expression) + 1
        /\ ctx = op.ctx

\* reached: a lex error on the fourth character of a four-character input
C3_Witness ==
    /\ Evaluated
    /\ result.kind = "error"
    /\ result.err = "Unexpected character: "
    /\ result.n = 4
    /\ Len(expression) = 4

\* the number of single quotes in e
RECURSIVE QuoteCount(_)
QuoteCount(e) ==
    IF e = <<>> THEN 0
    ELSE (IF Head(e) = "'" THEN 1 ELSE 0) + QuoteCount(Tail(e))

\* quotes open and close literals in turn (there is no escape), so the last
\* literal of e is unterminated exactly when e holds an odd number of them
UnterminatedLiteral(e) == QuoteCount(e) % 2 = 1

\* C2: an expression with an unterminated string literal makes evaluate
\* raise an error; it returns no boolean.
C2_UnterminatedRaises ==
    (Evaluated /\ UnterminatedLiteral(expression)) => result.kind = "error"

(***************************************************************************)
(* Logical expressions over boolean-valued operands: calls that return     *)
(* true or false, that depend on the context, and that raise.              *)
(***************************************************************************)
TrueCall == CallText(sContains, <<Quoted(<<"a">>), Quoted(<<"a">>)>>)

FalseCall == CallText(sContains, <<Quoted(<<"a">>), Quoted(<<"b">>)>>)

\* true under one context of Contexts, false under the other
ContextCall == CallText(sContains, <<Variable(<<"a">>), Quoted(<<"a">>)>>)

\* unknown function, until frob is registered
FrobCall == CallText(sFrob, <<>>)

\* unknown variable
MissingCall == CallText(sContains, <<Variable(<<"m">>), Quoted(<<"x">>)>>)

\* arity error
ArityCall == CallText(sContains, <<Quoted(<<"a">>)>>)

\* type error: an argument that is a call
NestedCall == CallText(sContains, <<TrueCall, Quoted(<<"y">>)>>)

\* a parenthesised expression
ParenOperand == Paren(Neg(ContextCall))

Operands ==
    { TrueCall, FalseCall, ContextCall, FrobCall, MissingCall, ArityCall,
      NestedCall, ParenOperand }

RaisingOperands == {FrobCall, MissingCall, ArityCall, NestedCall}

TernaryForms ==
    {"or_and", "and_and", "or_or", "(or)_and", "and_(or)"}

BinaryForms == {"and", "or", "not_and", "not_(and)"}

\* the operands of the three-operand forms
ChainOperands == {TrueCall, FalseCall, ContextCall, FrobCall, ParenOperand}

LogicSources ==
    {Source(f, ps) : f \in TernaryForms, ps \in [1..3 -> ChainOperands]}
    \cup {Source(f, ps) : f \in BinaryForms, ps \in [1..2 -> Operands]}

RegisterFrob == \E func \in UserCallables : registerFunction(sFrob, func)

InitLogic == InitOn(LogicSources)

NextLogic == RegisterFrob \/ Evaluate

SpecLogic == InitLogic /\ [][NextLogic]_vars

\* the text of s with the grouping the grammar gives it written out
Grouped(s) ==
    LET A == s.parts[1]
        B == s.parts[2]
        C == s.parts[3]
    IN
    CASE s.form = "or_and" -> Bin(A, kwOr, Paren(Bin(B, kwAnd, C)))
      [] s.form = "not_and" -> Bin(Paren(Neg(A)), kwAnd, B)
      [] s.form = "and_and" -> Bin(Paren(Bin(A, kwAnd, B)), kwAnd, C)
      [] s.form = "or_or" -> Bin(Paren(Bin(A, kwOr, B)), kwOr, C)

\* the outcome of operand i of src, evaluated on its own
OperandOutcome(i) == evaluate(src.parts[i], ctx, functions_)

OperandsAreBooleans ==
    \A i \in DOMAIN src.parts : OperandOutcome(i).kind = "bool"

\* C1: "A or B and C" has the outcome of "A or (B and C)", "not A and B"
\* that of "(not A) and B", chains of one operator group to the left, and
\* parentheses override the grouping: "(A or B) and C" is the conjunction
\* of a disjunction, "A and (B or C)" and "not (A and B)" likewise.
C1_Precedence ==
    Evaluated =>
        /\ src.form \in {"or_and", "not_and", "and_and", "or_or"} =>
              Verdict(result) = Verdict(evaluate(Grouped(src), ctx, functions_))
        /\ (src.form = "or_and" /\ OperandsAreBooleans) =>
              /\ result.kind = "bool"
              /\ result.b = (OperandOutcome(1).b
                             \/ (OperandOutcome(2).b /\ OperandOutcome(3).b))
        /\ (src.form = "not_and" /\ OperandsAreBooleans) =>
              /\ result.kind = "bool"
              /\ result.b = (~OperandOutcome(1).b /\ OperandOutcome(2).b)
        /\ (src.form = "(or)_and" /\ OperandsAreBooleans) =>
              /\ result.kind = "bool"
              /\ result.b = ((OperandOutcome(1).b \/ OperandOutcome(2).b)
                             /\ OperandOutcome(3).b)
        /\ (src.form = "and_(or)" /\ OperandsAreBooleans) =>
              /\ result.kind = "bool"
              /\ result.b = (OperandOutcome(1).b
                             /\ (OperandOutcome(2).b \/ OperandOutcome(3).b))
        /\ (src.form = "not_(and)" /\ OperandsAreBooleans) =>
              /\ result.kind = "bool"
              /\ result.b = ~(OperandOutcome(1).b /\ OperandOutcome(2).b)

\* reached: "T or F and F" is true, where "(T or F) and F" is false
C1_Witness ==
    /\ Evaluated
    /\ src = Source("or_and", <<TrueCall, FalseCall, FalseCall>>)
    /\ result.kind = "bool"
    /\ result.b

\* the left operand of a binary form decides the result without the right
\* one: false under "and", true under "or"
LeftDecides ==
    /\ OperandOutcome(1).kind = "bool"
    /\ \/ src.form = "and" /\ ~OperandOutcome(1).b
       \/ src.form = "or" /\ OperandOutcome(1).b

\* C6 as stated: "A and B" and "A or B" evaluate both children, so that
\* whenever B raises and A does not, evaluate raises B's error.
C6_BothChildrenEvaluated ==
    (/\ Evaluated
     /\ src.form \in {"and", "or"}
     /\ OperandOutcome(1).kind = "bool"
     /\ OperandOutcome(2).kind = "error") =>
        Verdict(result) = Verdict(OperandOutcome(2))

\* C6, amended: the left child is evaluated first and the right child only
\* when the left one does not decide the result. When it is evaluated, what
\* it raises is what evaluate raises; when the left child decides (false
\* under "and", true under "or"), evaluate returns the left child's value,
\* the right child is not evaluated and what it would raise is not raised.
C6_RightChildWhenNeeded ==
    (/\ Evaluated
     /\ src.form \in {"and", "or"}
     /\ OperandOutcome(1).kind = "bool") =>
        IF LeftDecides
        THEN /\ Verdict(result) = Verdict(OperandOutcome(1))
             /\ result.log = OperandOutcome(1).log
        ELSE /\ Verdict(result) = Verdict(OperandOutcome(2))
             /\ result.log = OperandOutcome(1).log \o OperandOutcome(2).log

\* reached: "F and frob()" is false though frob is not registered
C6_Witness ==
    /\ Evaluated
    /\ src = Source("and", <<FalseCall, FrobCall>>)
    /\ sFrob \notin DOMAIN functions_
    /\ result.kind = "bool"
    /\ ~result.b

(***************************************************************************)
(* Calls: a name applied to at most MaxArgs arguments.                     *)
(***************************************************************************)
MaxArgs == 2

\* arguments that parse to a Value node: a variable of the context, a
\* variable absent from it, a string literal, a parenthesised literal
MissingVariable == Variable(<<"m">>)

ValueArgs ==
    { Variable(<<"a">>), MissingVariable, Quoted(<<"x">>),
      Paren(Quoted(<<"x">>)) }

\* bare identifiers: no "#", not followed by "("
BareIdentifiers == { <<"a","1">>, <<"{","a","}">> }

\* arguments that parse to a Logical or a Call node
NodeArgs == { Neg(Quoted(<<"x">>)), TrueCall }

CallArgs == ValueArgs \cup BareIdentifiers \cup NodeArgs

CallNames == {sContains, sFrob}

CallSources ==
    {Source("call", <<name>> \o args) :
        name \in CallNames, args \in SeqsUpTo(CallArgs, MaxArgs)}

InitCalls == InitOn(CallSources)

NextCalls == RegisterFrob \/ Evaluate

SpecCalls == InitCalls /\ [][NextCalls]_vars

\* the call src makes: its name and its arguments' texts
CallName == src.parts[1]

Args == Tail(src.parts)

\* the index of the first argument in S, or Len(Args) + 1
FirstArgIn(S) ==
    IF \E i \in DOMAIN Args : Args[i] \in S
    THEN CHOOSE i \in DOMAIN Args :
            Args[i] \in S /\ \A j \in 1..(i - 1) : Args[j] \notin S
    ELSE Len(Args) + 1

Events(kind) == {i \in DOMAIN result.log : result.log[i].e = kind}

\* C7: a bare identifier argument reaches the predicate as its raw lexeme.
C7_BareIdentifierIsLexeme ==
    (Evaluated /\ src.form = "call" /\ Events("invoke") # {}) =>
        \A i \in DOMAIN Args :
            Args[i] \in BareIdentifiers =>
                result.log[Len(result.log)].args[i] = Args[i]

\* C8: a call evaluates its arguments as strings, left to right, then looks
\* its name up, then invokes the predicate. With a variable absent from the
\* context among the arguments, the unknown-variable error is raised after
\* the arguments before it were evaluated and before any lookup, whether
\* the name is registered or not; the unknown-function error is raised only
\* after every argument has evaluated to a string.
C8_ArgumentsBeforeLookup ==
    (Evaluated /\ src.form = "call"
        /\ \A i \in DOMAIN Args : Args[i] \notin NodeArgs) =>
        LET n == Len(Args)
            k == FirstArgIn({MissingVariable})
            log == result.log
        IN
        IF k <= n
        THEN /\ result.kind = "error"
             /\ result.err = "Variable not found: "
             /\ result.etext = <<"m">>
             /\ Len(log) = k - 1
             /\ \A i \in DOMAIN log : log[i].e = "string"
        ELSE /\ Len(log) >= n + 1
             /\ \A i \in 1..n : log[i].e = "string"
             /\ log[n + 1].e = "lookup"
             /\ log[n + 1].name = ToLower(CallName)
             /\ IF ToLower(CallName) \in DOMAIN functions_
                THEN /\ Len(log) = n + 2
                     /\ log[n + 2].e = "invoke"
                     /\ log[n + 2].f = functions_[ToLower(CallName)]
                     /\ Len(log[n + 2].args) = n
                     /\ \A i \in 1..n : log[n + 2].args[i] = log[i].args[1]
                ELSE /\ Len(log) = n + 1
                     /\ result.kind = "error"
                     /\ result.err = "Function not found: "
                     /\ result.etext = CallName

\* reached: frob(#{m}) with frob not registered raises unknown variable
C8_Witness ==
    /\ Evaluated
    /\ src = Source("call", <<sFrob, MissingVariable>>)
    /\ sFrob \notin DOMAIN functions_
    /\ result.err = "Variable not found: "

\* C9 as stated: whenever an argument parses to a Logical or a Call node,
\* the call raises the structural type error and invokes no predicate.
C9_NodeArgumentIsTypeError ==
    (Evaluated /\ src.form = "call"
        /\ \E i \in DOMAIN Args : Args[i] \in NodeArgs) =>
        /\ result.kind = "error"
        /\ result.err = "Not a string expression node"
        /\ Events("invoke") = {}

\* C9, amended: whenever an argument parses to a Logical or a Call node,
\* the call raises and invokes no predicate (nor looks its name up); what
\* it raises is the structural type error, unless an argument to the left
\* of the first such argument is a variable absent from the context, whose
\* unknown-variable error is raised first.
C9_NodeArgumentRaises ==
    (Evaluated /\ src.form = "call"
        /\ \E i \in DOMAIN Args : Args[i] \in NodeArgs) =>
        /\ result.kind = "error"
        /\ Events("invoke") = {}
        /\ Events("lookup") = {}
        /\ IF FirstArgIn({MissingVariable}) < FirstArgIn(NodeArgs)
           THEN result.err = "Variable not found: "
           ELSE result.err = "Not a string expression node"

\* reached: contains(#{a}, not 'x') raises the type error
C9_Witness ==
    /\ Evaluated
    /\ src = Source("call", <<sContains, Variable(<<"a">>), Neg(Quoted(<<"x">>))>>)
    /\ result.err = "Not a string expression node"
    /\ Len(result.log) = 1

(***************************************************************************)
(* Token sequences: at most MaxTokens pieces, separated by one space.      *)
(***************************************************************************)
MaxTokens == 3

Keywords == {kwNot, kwAnd, kwOr}

PredicateNames == {sFoo, sContains}

ArgLists ==
    { <<"(", ")">>,
      Paren(JoinWith(<<Variable(<<"a">>), Quoted(<<"a">>)>>, <<",", " ">>)) }

TokenPieces ==
    Keywords \cup PredicateNames \cup ArgLists \cup { <<"(">>, <<")">> }

\* a rule longer than MaxTokens pieces
LongRule ==
    <<kwNot, sFoo, <<"(", ")">>, kwAnd, sContains,
      Paren(JoinWith(<<Variable(<<"a">>), Quoted(<<"a">>)>>, <<",", " ">>)),
      kwOr, sFoo, <<"(", ")">>>>

TokenSources ==
    {Source("tokens", ps) : ps \in SeqsUpTo(TokenPieces, MaxTokens)}
    \cup {Source("tokens", LongRule)}

RegisterFoo ==
    \E name \in {<<"F","o","o">>, <<"F","O","O">>} :
        registerFunction(name, "userTrue")

InitTokens == InitOn(TokenSources)

NextTokens == RegisterFoo \/ Evaluate

SpecTokens == InitTokens /\ [][NextTokens]_vars

toupper(c) ==
    IF islower(c)
    THEN UpperLetters[CHOOSE i \in DOMAIN LowerLetters : LowerLetters[i] = c]
    ELSE c

ToUpper(s) == [i \in 1..Len(s) |-> toupper(s[i])]

\* s with its first character in upper case
Capitalised(s) == [i \in 1..Len(s) |-> IF i = 1 THEN toupper(s[i]) ELSE s[i]]

\* piece i of ps is a keyword, or a predicate name that is called
CaseFree(ps, i) ==
    \/ ps[i] \in Keywords
    \/ /\ ps[i] \in PredicateNames
       /\ i < Len(ps)
       /\ Head(ps[i + 1]) = "("

\* ps with the letter case of keywords and called names changed: one of
\* them in upper case or capitalised, or all of them in upper case
CaseVariants(ps) ==
    {[ps EXCEPT ![i] = ToUpper(ps[i])] : i \in {j \in DOMAIN ps : CaseFree(ps, j)}}
    \cup
    {[ps EXCEPT ![i] = Capitalised(ps[i])] : i \in {j \in DOMAIN ps : CaseFree(ps, j)}}
    \cup
    {[i \in DOMAIN ps |-> IF CaseFree(ps, i) THEN ToUpper(ps[i]) ELSE ps[i]]}

\* C5: changing the letter case of keywords and of called predicate names
\* leaves the outcome unchanged: the same boolean, or the same exception
\* (up to the spelling of the lexeme its message quotes).
C5_CaseInsensitive ==
    (Evaluated /\ src.form = "tokens") =>
        \A v \in CaseVariants(src.parts) :
            LET other == evaluate(JoinWith(v, <<" ">>), ctx, functions_) IN
            /\ other.kind = result.kind
            /\ other.b = result.b
            /\ other.err = result.err
            /\ ToLower(other.etext) = ToLower(result.etext)

\* reached: "not foo ()" with foo registered as Foo or FOO, which invokes it
C5_Witness ==
    /\ Evaluated
    /\ src = Source("tokens", <<kwNot, sFoo, <<"(", ")">>>>)
    /\ sFoo \in DOMAIN functions_
    /\ result.kind = "bool"
    /\ Events("invoke") # {}

(***************************************************************************)
(* Trailing input: a complete expression, a space, a token that cannot     *)
(* continue it, and whatever follows.                                      *)
(***************************************************************************)
Leads ==
    { TrueCall, FalseCall, FrobCall, MissingCall, Quoted(<<"x">>),
      Paren(ContextCall), Neg(FalseCall), Bin(TrueCall, kwAnd, ContextCall) }

\* none of these continues an expression that ends with ")" or a literal
StrayTokens ==
    { <<")">>, <<",">>, <<"(">>, Quoted(<<"y">>), <<"y">>, kwNot }

\* what follows the stray token: nothing, a character no token starts with,
\* further tokens
Rests ==
    { <<>>, <<"$">>, <<" ", ")">>, <<" ">> \o kwAnd \o <<" ">> \o Quoted(<<"z">>) }

TrailSources ==
    {Source("trail", <<lead, stray, rest>>) :
        lead \in Leads, stray \in StrayTokens, rest \in Rests}

InitTrail == InitOn(TrailSources)

NextTrail == RegisterFrob \/ Evaluate

SpecTrail == InitTrail /\ [][NextTrail]_vars

\* C10: evaluate does not require the End token after the top-level
\* expression. With a stray token after a complete expression, the outcome
\* is the outcome of that expression alone, the stray token is the parser's
\* last look-ahead token and nothing after it is lexed.
C10_TrailingInputIgnored ==
    (Evaluated /\ src.form = "trail") =>
        LET alone == evaluate(src.parts[1], ctx, functions_) IN
        /\ Verdict(result) = Verdict(alone)
        /\ result.log = alone.log
        /\ result.n = alone.n
        /\ result.last # "End"
        /\ result.pos_ = Len(src.parts[1]) + 1 + Len(src.parts[2])

\* reached: "contains('a', 'a') )$" is true, the "$" never lexed
C10_Witness ==
    /\ Evaluated
    /\ src = Source("trail", <<TrueCall, <<")">>, <<"$">>>>)
    /\ result.kind = "bool"
    /\ result.b
    /\ result.last = "RParen"

(***************************************************************************)
(* The registry: names registered in several casings, the built-ins'       *)
(* names among them, between evaluations of rules that call them.          *)
(***************************************************************************)
sContainsAny == <<"c","o","n","t","a","i","n","s","a","n","y">>

RegisteredNames ==
    { <<"F","o","o">>, sFoo, <<"C","O","N","T","A","I","N","S">>,
      <<"c","o","n","t","a","i","n","s","A","n","y">> }

Rules ==
    { TrueCall,
      CallText(<<"F","O","O">>, <<>>),
      CallText(<<"c","o","n","t","a","i","n","s","A","n","y">>,
               <<Variable(<<"a">>), Quoted(<<"z">>), Quoted(<<"b">>)>>),
      Bin(ContextCall, kwOr, CallText(sFoo, <<Quoted(<<"x">>)>>)) }

RuleSources == {Source("text", <<rule>>) : rule \in Rules}

Register ==
    \E name \in RegisteredNames, func \in UserCallables :
        registerFunction(name, func)

Init == InitOn(RuleSources)

Next == Register \/ Evaluate

Spec == Init /\ [][Next]_vars

\* every key is in lower case, and the built-ins' names are keys
RegistryKeys ==
    /\ \A key \in DOMAIN functions_ :
          \A i \in DOMAIN key : ~isupper(key[i])
    /\ sContains \in DOMAIN functions_
    /\ sContainsAny \in DOMAIN functions_

\* a step removes no key; evaluate leaves the registry as it is;
\* registerFunction(name, f) maps the lowercased name to f, whatever was
\* stored under it, and leaves the other keys as they are
RegistryStep ==
    /\ DOMAIN functions_ \subseteq DOMAIN functions_'
    /\ op'.kind = "evaluate" => functions_' = functions_
    /\ op'.kind = "registerFunction" =>
          /\ DOMAIN functions_' = DOMAIN functions_ \cup {ToLower(op'.name)}
          /\ functions_'[ToLower(op'.name)] = op'.f
          /\ \A key \in DOMAIN functions_ \ {ToLower(op'.name)} :
                functions_'[key] = functions_[key]

\* C4: in every reachable state every registry key is a lowercased name and
\* contains and containsany are keys; no key is ever removed, evaluate
\* leaves the registry unchanged, and registerFunction(name, f) makes
\* lowercase(name) map to f, replacing what was stored, built-ins included.
C4_Registry == [](RegistryKeys) /\ [][RegistryStep]_vars

\* reached: CONTAINS registered over the built-in, then a rule evaluated
C4_Witness ==
    /\ Evaluated
    /\ functions_[sContains] = "userFalse"
    /\ sFoo \in DOMAIN functions_
    /\ expression = TrueCall
    /\ result.kind = "bool"
    /\ ~result.b

====
